---- MODULE Spec2Model ----
(***************************************************************************)
(* mercury: main(), open_and_dispatch() and the file-replay producer of    *)
(* src/src/mercury.c, together with the collaborators that main() drives   *)
(* (thread queues, output thread, capture dispatch), which live in other   *)
(* files of the repository and are modelled from the design document.      *)
(***************************************************************************)
EXTENDS Integers, Sequences, FiniteSets, TLC

VARIABLES
    pc,              \* position of the main thread (Lifecycle Controller)
    cfg,             \* struct mercury_config
    num_inputs,      \* main: int num_inputs
    nopts,           \* number of options getopt_long has returned so far
    exit_code,       \* NotExited while the process runs, else its exit status
    sig_stop_output, \* global stop flag (mercury.c:36)
    t_output_p,      \* out_ctx.t_output_p, the start predicate
    n_broadcast,     \* number of pthread_cond_broadcast calls on out_ctx.t_output_c
    oc,              \* Output Coordinator thread (output_thread)
    queues,          \* t_queues.queue[i]
    qcap,            \* capacity of every queue, fixed at construction
    queues_live,     \* "none" | "live" | "destroyed"
    prod,            \* producer threads
    tc,              \* struct pcap_reader_thread_context of open_and_dispatch
    interrupted,     \* an external termination signal has been delivered
    files,           \* per thread: the sequence of output files written so far
    io_failed,       \* per thread: its OutputFile has had a write/rotation failure
    dropped,         \* per thread: records taken from the queue but not written
    enq,             \* history: per thread, records successfully enqueued, in order
    fseq,            \* per thread: sequence numbers of the output files opened, in order
    percent_accept,  \* admission controller: percentage of packets handed on
    after_fail       \* history: per thread, records written while another
                     \* thread's OutputFile was unusable

vars == << pc, cfg, num_inputs, nopts, exit_code, sig_stop_output, t_output_p,
           n_broadcast, oc, queues, qcap, queues_live, prod, tc, interrupted,
           files, io_failed, dropped, enq, fseq, percent_accept, after_fail >>

-----------------------------------------------------------------------------
(* Bounds of the model *)

\* command-line options handed to getopt_long
MaxOpts == 3
\* largest queue capacity tried
MaxCap == 2
\* packets in the replay file
FileLen == 2
\* packets one live-capture thread receives before the interrupt
MaxCapPkts == 1

(* Program constants *)

\* #define EXIT_ERR 255
EXIT_ERR == 255
\* EXIT_FAILURE of <stdlib.h>, returned by main
EXIT_FAILURE == 1
\* exit status of a process killed by SIGSEGV (signal 11)
EXIT_CRASH == 128 + 11
\* the value get_nprocs() returns
NumCpus == 2
\* exit_code while the process has not exited
NotExited == -1

\* thread indices: queue[0] .. queue[NumCpus-1]
Threads == 0 .. (NumCpus - 1)

\* arguments of -t: "cpu" (stored as -1) or a number
ThreadArgs == {-1, 1, NumCpus}
\* arguments of -l
RotateArgs == {1, 2}
\* arguments of -p
LoopArgs == {0, 1, 2}
\* what a configuration file read by --config may select as input
CfgFileKinds == {"none", "read", "capture"}

\* line 491 with a percentage above the range
InitialPercentAccept_AboveRange == 100 + 30
\* line 491: the argument of set_percent_accept
InitialPercentAccept == 30
\* percent_accept while adaptive admission is not configured: every packet is handed on
AcceptAll == 100
\* what one adjustment of the feedback policy adds to or takes from percent_accept
AdjustStep == 50
\* the random draws a packet is compared with: rand() % 100
AdmissionDraws == 0 .. 99

-----------------------------------------------------------------------------
(* Configuration: mercury_config_init and the getopt_long loop of main *)

mercury_config_init ==
    [ capture_interface    |-> FALSE,   \* NULL
      read_filename        |-> FALSE,
      write_filename       |-> FALSE,
      fingerprint_filename |-> FALSE,
      working_dir          |-> FALSE,
      analysis             |-> FALSE,
      adaptive             |-> 0,
      num_threads          |-> 1,
      rotate               |-> 0,
      loop_count           |-> 1 ]

\* mercury_config_read_from_file: the file may name a read file or an interface
mercury_config_read_from_file(c, kind) ==
    CASE kind = "read"    -> [c EXCEPT !.read_filename = TRUE]
      [] kind = "capture" -> [c EXCEPT !.capture_interface = TRUE]
      [] OTHER            -> c

Exit(code) ==
    /\ pc' = "exited"
    /\ exit_code' = code

\* usage(): prints and calls exit(EXIT_ERR)
usage == Exit(EXIT_ERR)

pipeline_vars == << sig_stop_output, t_output_p, n_broadcast, oc, queues, qcap,
                    queues_live, prod, tc, interrupted, files, io_failed,
                    dropped, enq, fseq, after_fail >>

\* case 1: --config
OptConfig ==
    /\ \E kind \in CfgFileKinds : cfg' = mercury_config_read_from_file(cfg, kind)
    /\ num_inputs' = num_inputs + 1

\* case 'r'
OptRead ==
    /\ cfg' = [cfg EXCEPT !.read_filename = TRUE]
    /\ num_inputs' = num_inputs + 1

\* case 'w'
OptWrite ==
    /\ cfg' = [cfg EXCEPT !.write_filename = TRUE]
    /\ UNCHANGED num_inputs

\* case 'd'
OptDirectory ==
    /\ cfg' = [cfg EXCEPT !.working_dir = TRUE]
    /\ num_inputs' = num_inputs + 1

\* case 'c'
OptCapture ==
    /\ cfg' = [cfg EXCEPT !.capture_interface = TRUE]
    /\ num_inputs' = num_inputs + 1

\* case 'f'
OptFingerprint ==
    /\ cfg' = [cfg EXCEPT !.fingerprint_filename = TRUE]
    /\ UNCHANGED num_inputs

\* case 'a'
OptAnalysis ==
    /\ cfg' = [cfg EXCEPT !.analysis = TRUE]
    /\ UNCHANGED num_inputs

\* case 't'
OptThreads ==
    /\ \E n \in ThreadArgs : cfg' = [cfg EXCEPT !.num_threads = n]
    /\ UNCHANGED num_inputs

\* case 'l'
OptLimit ==
    /\ \E n \in RotateArgs : cfg' = [cfg EXCEPT !.rotate = n]
    /\ UNCHANGED num_inputs

\* case 'p'
OptLoop ==
    /\ \E n \in LoopArgs : cfg' = [cfg EXCEPT !.loop_count = n]
    /\ UNCHANGED num_inputs

\* case 0: --adaptive
OptAdaptive ==
    /\ cfg' = [cfg EXCEPT !.adaptive = 1]
    /\ UNCHANGED num_inputs

\* one iteration of while(1): getopt_long returns an option that is stored
MainGetopt ==
    /\ pc = "getopt"
    /\ nopts < MaxOpts
    /\ nopts' = nopts + 1
    /\ \/ OptConfig
       \/ OptRead
       \/ OptWrite
       \/ OptDirectory
       \/ OptCapture
       \/ OptFingerprint
       \/ OptAnalysis
       \/ OptThreads
       \/ OptLimit
       \/ OptLoop
       \/ OptAdaptive
    /\ UNCHANGED << pc, exit_code >>
    /\ UNCHANGED pipeline_vars
    /\ UNCHANGED percent_accept

\* case 'h', case '?' and default: usage()
MainGetoptUsage ==
    /\ pc = "getopt"
    /\ nopts < MaxOpts
    /\ nopts' = nopts + 1
    /\ usage
    /\ UNCHANGED << cfg, num_inputs >>
    /\ UNCHANGED pipeline_vars
    /\ UNCHANGED percent_accept

\* getopt_long returns -1: break
MainGetoptEnd ==
    /\ pc = "getopt"
    /\ pc' = "validate"
    /\ UNCHANGED << cfg, num_inputs, nopts, exit_code >>
    /\ UNCHANGED pipeline_vars
    /\ UNCHANGED percent_accept

-----------------------------------------------------------------------------
(* main, lines 456-493: the configuration checks *)

\* the four checks of lines 456-467
BadArguments(c, n) ==
    \/ n = 0
    \/ n > 1
    \/ (c.fingerprint_filename /\ c.write_filename)
    \/ (c.num_threads # 1 /\ ~c.fingerprint_filename /\ ~c.write_filename)

\* line 480
BadLoopCount(c) == c.loop_count < 1

\* lines 487-489
BadAdaptive(c) ==
    c.adaptive > 0 /\ (~c.write_filename \/ ~c.capture_interface)

\* set_percent_accept (rnd_pkt_drop.h), called at line 491
set_percent_accept(p) == percent_accept' = p

MainValidate ==
    /\ pc = "validate"
    /\ \/ /\ BadArguments(cfg, num_inputs)
          /\ usage
          /\ UNCHANGED percent_accept
       \/ /\ ~BadArguments(cfg, num_inputs)
          /\ cfg.analysis
          /\ Exit(EXIT_FAILURE)          \* analysis_init() == -1
          /\ UNCHANGED percent_accept
       \/ /\ ~BadArguments(cfg, num_inputs)
          /\ BadLoopCount(cfg)
          /\ usage
          /\ UNCHANGED percent_accept
       \/ /\ ~BadArguments(cfg, num_inputs)
          /\ ~BadLoopCount(cfg)
          /\ BadAdaptive(cfg)
          /\ usage
          /\ UNCHANGED percent_accept
       \/ /\ ~BadArguments(cfg, num_inputs)
          /\ ~BadLoopCount(cfg)
          /\ ~BadAdaptive(cfg)
          /\ IF cfg.adaptive > 0
             THEN set_percent_accept(InitialPercentAccept)
             ELSE UNCHANGED percent_accept
          /\ pc' = "setup"
          /\ UNCHANGED exit_code
    /\ UNCHANGED << cfg, num_inputs, nopts >>
    /\ UNCHANGED pipeline_vars

-----------------------------------------------------------------------------
(* Queue: bounded single-producer/single-consumer ring of finished records *)

\* an unused slot of the ring
NoRecord == 0

\* a queue of capacity c as constructed: all slots unused, head = tail = 0
EmptyQueue(c) ==
    [ buf |-> [k \in 0 .. (c - 1) |-> NoRecord], head |-> 0, tail |-> 0, count |-> 0 ]

QueueFull(q) == q.count = qcap

QueueEmpty(q) == q.count = 0

\* try_push: whether the record is accepted
try_push_ok(q) == ~QueueFull(q)

\* try_push without the test for a full ring
try_push_overwrite(q, r) ==
    [ q EXCEPT !.buf[q.tail] = r,
               !.tail = (q.tail + 1) % qcap,
               !.count = q.count + 1 ]

\* try_push: the queue afterwards
try_push(q, r) ==
    IF QueueFull(q)
    THEN q
    ELSE [ q EXCEPT !.buf[q.tail] = r,
                    !.tail = (q.tail + 1) % qcap,
                    !.count = q.count + 1 ]

\* try_pop reading the newest slot instead of the oldest
try_pop_record_newest(q) ==
    IF QueueEmpty(q) THEN NoRecord ELSE q.buf[(q.tail + qcap - 1) % qcap]

\* try_pop: the record returned, NoRecord when the queue is empty
try_pop_record(q) == IF QueueEmpty(q) THEN NoRecord ELSE q.buf[q.head]

\* try_pop: the queue afterwards
try_pop(q) ==
    IF QueueEmpty(q)
    THEN q
    ELSE [ q EXCEPT !.buf[q.head] = NoRecord,
                    !.head = (q.head + 1) % qcap,
                    !.count = q.count - 1 ]

\* the records a queue holds, oldest first
RECURSIVE QueueContentsFrom(_, _, _)
QueueContentsFrom(q, k, n) ==
    IF n = 0 THEN << >>
    ELSE << q.buf[k] >> \o QueueContentsFrom(q, (k + 1) % qcap, n - 1)

QueueContents(q) == QueueContentsFrom(q, q.head, q.count)

-----------------------------------------------------------------------------
(* main, lines 495-536: set-up and start of the output thread *)

Alive == pc # "exited"

\* the queues t_queues holds: one per configured thread
NumQueues == cfg.num_threads

ActiveThreads == 0 .. (NumQueues - 1)

\* lines 495-510: signal handlers, "cpu" thread count, srand
MainSetup ==
    /\ pc = "setup"
    /\ cfg' = IF cfg.num_threads = -1 THEN [cfg EXCEPT !.num_threads = NumCpus] ELSE cfg
    /\ pc' = "dispatch"
    /\ UNCHANGED << num_inputs, nopts, exit_code >>
    /\ UNCHANGED pipeline_vars
    /\ UNCHANGED percent_accept

\* the sequence number of the first OutputFile of a thread
FirstSeq == 0

\* the sequence number of the file opened by a rotation
NextSeq(sq) == sq[Len(sq)] + 1

\* output_thread_init succeeded: queues built, output files opened, thread created
output_thread_init_ok ==
    /\ \E c \in 1 .. MaxCap :
          /\ qcap' = c
          /\ queues' = [i \in ActiveThreads |-> EmptyQueue(c)]
    /\ queues_live' = "live"
    /\ files' = [i \in Threads |-> IF i \in ActiveThreads THEN << << >> >> ELSE << >>]
    /\ fseq' = [i \in Threads |-> IF i \in ActiveThreads THEN << FirstSeq >> ELSE << >>]
    /\ oc' = [oc EXCEPT !.state = "WaitingForStart", !.wpc = "check"]

\* lines 513-533 with the queues built and the files opened but the output
\* thread not created
MainOutputThreadInit_NoThread ==
    /\ pc = "dispatch"
    /\ cfg.capture_interface \/ cfg.read_filename
    /\ \E c \in 1 .. MaxCap :
          /\ qcap' = c
          /\ queues' = [i \in ActiveThreads |-> EmptyQueue(c)]
    /\ queues_live' = "live"
    /\ files' = [i \in Threads |-> IF i \in ActiveThreads THEN << << >> >> ELSE << >>]
    /\ fseq' = [i \in Threads |-> IF i \in ActiveThreads THEN << FirstSeq >> ELSE << >>]
    /\ pc' = IF cfg.capture_interface THEN "af_bind" ELSE "od_init"
    /\ UNCHANGED << cfg, num_inputs, nopts, exit_code, sig_stop_output, t_output_p,
                    n_broadcast, oc, prod, tc, interrupted, io_failed, dropped, enq,
                    percent_accept, after_fail >>

\* lines 513-533: the branch on the input kind, up to output_thread_init
MainOutputThreadInit ==
    /\ pc = "dispatch"
    /\ cfg.capture_interface \/ cfg.read_filename
    /\ \/ /\ output_thread_init_ok
          /\ pc' = IF cfg.capture_interface THEN "af_bind" ELSE "od_init"
          /\ UNCHANGED exit_code
       \/ /\ Exit(EXIT_FAILURE)
          /\ UNCHANGED << qcap, queues, queues_live, files, fseq, oc >>
    /\ UNCHANGED << cfg, num_inputs, nopts, sig_stop_output, t_output_p, n_broadcast,
                    prod, tc, interrupted, io_failed, dropped, enq,
                    percent_accept, after_fail >>

\* line 513/528: neither cfg.capture_interface nor cfg.read_filename is set
MainSkipDispatch ==
    /\ pc = "dispatch"
    /\ ~cfg.capture_interface
    /\ ~cfg.read_filename
    /\ pc' = "finalize"
    /\ UNCHANGED << cfg, num_inputs, nopts, exit_code >>
    /\ UNCHANGED pipeline_vars
    /\ UNCHANGED percent_accept

-----------------------------------------------------------------------------
(* open_and_dispatch, lines 102-155 *)

\* pthread_cond_broadcast: every thread blocked in pthread_cond_wait is woken
pthread_cond_broadcast(o) ==
    IF o.wpc = "blocked" THEN [o EXCEPT !.wpc = "check"] ELSE o

\* pcap_reader_thread_context_init_from_config, lines 59-87
pcap_reader_thread_context_init_from_config ==
    \/ tc' = [status |-> "err", pkt_processor |-> "null", rf_open |-> FALSE]
    \/ tc' = [status |-> "err", pkt_processor |-> "live", rf_open |-> FALSE]
    \/ tc' = [status |-> "ok",  pkt_processor |-> "live", rf_open |-> TRUE]

\* open_and_dispatch going on although the context could not be initialised
OD_Init_IgnoreStatus ==
    /\ pc = "od_init"
    /\ pcap_reader_thread_context_init_from_config
    /\ pc' = "od_set_start"
    /\ UNCHANGED << cfg, num_inputs, nopts, exit_code, sig_stop_output, t_output_p,
                    n_broadcast, oc, queues, qcap, queues_live, prod, interrupted,
                    files, io_failed, dropped, enq,
                    fseq, percent_accept, after_fail >>

\* lines 111-117
OD_Init ==
    /\ pc = "od_init"
    /\ pcap_reader_thread_context_init_from_config
    /\ pc' = IF tc'.status = "ok" THEN "od_set_start" ELSE "finalize"
    /\ UNCHANGED << cfg, num_inputs, nopts, exit_code, sig_stop_output, t_output_p,
                    n_broadcast, oc, queues, qcap, queues_live, prod, interrupted,
                    files, io_failed, dropped, enq,
                    fseq, percent_accept, after_fail >>

\* line 120
OD_SetStart ==
    /\ pc = "od_set_start"
    /\ t_output_p' = 1
    /\ pc' = "od_broadcast"
    /\ UNCHANGED << cfg, num_inputs, nopts, exit_code, sig_stop_output,
                    n_broadcast, oc, queues, qcap, queues_live, prod, tc, interrupted,
                    files, io_failed, dropped, enq,
                    fseq, percent_accept, after_fail >>

\* lines 121-125
OD_Broadcast ==
    /\ pc = "od_broadcast"
    /\ n_broadcast' = n_broadcast + 1
    /\ \/ /\ oc' = pthread_cond_broadcast(oc)
          /\ pc' = "od_create"
          /\ UNCHANGED exit_code
       \/ /\ Exit(EXIT_ERR)
          /\ UNCHANGED oc
    /\ UNCHANGED << cfg, num_inputs, nopts, sig_stop_output, t_output_p,
                    queues, qcap, queues_live, prod, tc, interrupted,
                    files, io_failed, dropped, enq,
                    fseq, percent_accept, after_fail >>

\* lines 130-134
OD_Create ==
    /\ pc = "od_create"
    /\ \/ /\ prod' = [prod EXCEPT ![0].state = "running"]
          /\ pc' = "od_join"
          /\ UNCHANGED exit_code
       \/ /\ Exit(EXIT_ERR)
          /\ UNCHANGED prod
    /\ UNCHANGED << cfg, num_inputs, nopts, sig_stop_output, t_output_p, n_broadcast,
                    oc, queues, qcap, queues_live, tc, interrupted,
                    files, io_failed, dropped, enq,
                    fseq, percent_accept, after_fail >>

\* open_and_dispatch going on without waiting for the reader thread
OD_Join_NoWait ==
    /\ pc = "od_join"
    /\ pc' = "od_close"
    /\ UNCHANGED << cfg, num_inputs, nopts, exit_code, sig_stop_output, t_output_p,
                    n_broadcast, oc, queues, qcap, queues_live, prod, tc, interrupted,
                    files, io_failed, dropped, enq,
                    fseq, percent_accept, after_fail >>

\* line 135: pthread_join(tc.tid) returns once the thread function has returned
OD_Join ==
    /\ pc = "od_join"
    /\ prod[0].state = "finished"
    /\ prod' = [prod EXCEPT ![0].state = "joined"]
    /\ pc' = "od_close"
    /\ UNCHANGED << cfg, num_inputs, nopts, exit_code, sig_stop_output, t_output_p,
                    n_broadcast, oc, queues, qcap, queues_live, tc, interrupted,
                    files, io_failed, dropped, enq,
                    fseq, percent_accept, after_fail >>

\* lines 137-154
OD_Close ==
    /\ pc = "od_close"
    /\ tc' = [tc EXCEPT !.pkt_processor = "deleted", !.rf_open = FALSE]
    /\ pc' = "finalize"
    /\ UNCHANGED << cfg, num_inputs, nopts, exit_code, sig_stop_output, t_output_p,
                    n_broadcast, oc, queues, qcap, queues_live, prod, interrupted,
                    files, io_failed, dropped, enq,
                    fseq, percent_accept, after_fail >>

-----------------------------------------------------------------------------
(* main, lines 538-549: shutdown *)

\* the stop flag raised as soon as the reader thread exists, before its join
MainStop_BeforeJoin ==
    \/ /\ pc = "od_join"
       /\ sig_stop_output = 0
       /\ sig_stop_output' = 1
       /\ UNCHANGED << pc, cfg, num_inputs, nopts, exit_code, t_output_p,
                       n_broadcast, oc, queues, qcap, queues_live, prod, tc,
                       interrupted, files, io_failed, dropped, enq,
                       fseq, percent_accept, after_fail >>
    \/ /\ pc = "finalize"
       /\ sig_stop_output' = 1
       /\ pc' = "join_out"
       /\ UNCHANGED << cfg, num_inputs, nopts, exit_code, t_output_p,
                       n_broadcast, oc, queues, qcap, queues_live, prod, tc,
                       interrupted, files, io_failed, dropped, enq,
                       fseq, percent_accept, after_fail >>

\* lines 538-545
MainStop ==
    /\ pc = "finalize"
    /\ sig_stop_output' = 1
    /\ pc' = "join_out"
    /\ UNCHANGED << cfg, num_inputs, nopts, exit_code, t_output_p,
                    n_broadcast, oc, queues, qcap, queues_live, prod, tc, interrupted,
                    files, io_failed, dropped, enq,
                    fseq, percent_accept, after_fail >>

\* line 546: pthread_join(output_thread).  When output_thread was never
\* initialised the call reads an indeterminate pthread_t: it may fail and
\* return, or fault.
MainJoinOutput ==
    /\ pc = "join_out"
    /\ \/ /\ oc.state = "Terminated"
          /\ pc' = "destroy"
          /\ UNCHANGED exit_code
       \/ /\ oc.state = "Uninitialized"
          /\ pc' = "destroy"
          /\ UNCHANGED exit_code
       \/ /\ oc.state = "Uninitialized"
          /\ Exit(EXIT_CRASH)
    /\ UNCHANGED << cfg, num_inputs, nopts >>
    /\ UNCHANGED pipeline_vars
    /\ UNCHANGED percent_accept

\* line 547
MainDestroy ==
    /\ pc = "destroy"
    /\ queues_live' = "destroyed"
    /\ pc' = "return"
    /\ UNCHANGED << cfg, num_inputs, nopts, exit_code, sig_stop_output, t_output_p,
                    n_broadcast, oc, queues, qcap, prod, tc, interrupted,
                    files, io_failed, dropped, enq,
                    fseq, percent_accept, after_fail >>

\* line 549
MainReturn ==
    /\ pc = "return"
    /\ Exit(0)
    /\ UNCHANGED << cfg, num_inputs, nopts >>
    /\ UNCHANGED pipeline_vars
    /\ UNCHANGED percent_accept

-----------------------------------------------------------------------------
(* Producer threads *)

\* a packet handed to the packet processor: it yields a record or nothing;
\* a record is offered to the thread's queue and dropped when the queue is full
ProcessPacket(i) ==
    \/ /\ prod' = [prod EXCEPT ![i].next = prod[i].next + 1]
       /\ UNCHANGED << queues, enq >>                  \* no record produced
    \/ /\ queues' = [queues EXCEPT ![i] = try_push(queues[i], prod[i].next + 1)]
       /\ IF try_push_ok(queues[i])
          THEN /\ enq' = [enq EXCEPT ![i] = Append(enq[i], prod[i].next + 1)]
               /\ prod' = [prod EXCEPT ![i].next = prod[i].next + 1]
          ELSE /\ enq' = enq
               /\ prod' = [prod EXCEPT ![i].next = prod[i].next + 1,
                                       ![i].qdrops = prod[i].qdrops + 1]

\* packets the replay delivers: the file, loop_count times over
ReplayPackets == FileLen * cfg.loop_count

\* PF_Packet waiting for room in the queue before it processes the packet
PF_Packet_WaitsForRoom ==
    /\ Alive
    /\ ~cfg.capture_interface
    /\ prod[0].state = "running"
    /\ prod[0].next < ReplayPackets
    /\ try_push_ok(queues[0])
    /\ ProcessPacket(0)
    /\ UNCHANGED << pc, cfg, num_inputs, nopts, exit_code, sig_stop_output, t_output_p,
                    n_broadcast, oc, qcap, queues_live, tc, interrupted,
                    files, io_failed, dropped,
                    fseq, percent_accept, after_fail >>

\* pcap_file_processing_thread_func (lines 89-100): one packet of
\* pcap_file_dispatch_pkt_processor
PF_Packet ==
    /\ Alive
    /\ ~cfg.capture_interface
    /\ prod[0].state = "running"
    /\ prod[0].next < ReplayPackets
    /\ ProcessPacket(0)
    /\ UNCHANGED << pc, cfg, num_inputs, nopts, exit_code, sig_stop_output, t_output_p,
                    n_broadcast, oc, qcap, queues_live, tc, interrupted,
                    files, io_failed, dropped,
                    fseq, percent_accept, after_fail >>

\* pcap_file_processing_thread_func: end of input after the last loop, return NULL
PF_Return ==
    /\ Alive
    /\ ~cfg.capture_interface
    /\ prod[0].state = "running"
    /\ prod[0].next = ReplayPackets
    /\ prod' = [prod EXCEPT ![0].state = "finished"]
    /\ UNCHANGED << pc, cfg, num_inputs, nopts, exit_code, sig_stop_output, t_output_p,
                    n_broadcast, oc, queues, qcap, queues_live, tc, interrupted,
                    files, io_failed, dropped, enq,
                    fseq, percent_accept, after_fail >>

\* admission control, active with cfg.adaptive only: a packet is handed to
\* the packet processor when its random draw is below percent_accept
Admitted(d) == cfg.adaptive = 0 \/ d < percent_accept

\* a live-capture thread receives one packet, which is processed or, when
\* admission control rejects it, counted as dropped
LC_Packet(i) ==
    /\ Alive
    /\ cfg.capture_interface
    /\ prod[i].state = "running"
    /\ ~interrupted
    /\ prod[i].next < MaxCapPkts
    /\ \/ /\ {d \in AdmissionDraws : Admitted(d)} # {}
          /\ ProcessPacket(i)
       \/ /\ {d \in AdmissionDraws : ~Admitted(d)} # {}
          /\ prod' = [prod EXCEPT ![i].next = prod[i].next + 1,
                                  ![i].adrops = prod[i].adrops + 1]
          /\ UNCHANGED << queues, enq >>
    /\ UNCHANGED << pc, cfg, num_inputs, nopts, exit_code, sig_stop_output, t_output_p,
                    n_broadcast, oc, qcap, queues_live, tc, interrupted,
                    files, io_failed, dropped,
                    fseq, percent_accept, after_fail >>

\* a live-capture thread sees the termination signal at the top of its loop
LC_Return(i) ==
    /\ Alive
    /\ cfg.capture_interface
    /\ prod[i].state = "running"
    /\ interrupted
    /\ prod' = [prod EXCEPT ![i].state = "finished"]
    /\ UNCHANGED << pc, cfg, num_inputs, nopts, exit_code, sig_stop_output, t_output_p,
                    n_broadcast, oc, queues, qcap, queues_live, tc, interrupted,
                    files, io_failed, dropped, enq,
                    fseq, percent_accept, after_fail >>

\* percent_accept kept inside [0, 100]
Clamp(p) == IF p < 0 THEN 0 ELSE IF p > 100 THEN 100 ELSE p

\* one periodic adjustment of the admission controller while capture threads
\* run: percent_accept is lowered on overload and raised otherwise
AC_Adjust ==
    /\ Alive
    /\ cfg.adaptive > 0
    /\ \E i \in ActiveThreads : prod[i].state = "running"
    /\ \E d \in {-AdjustStep, AdjustStep} :
          /\ percent_accept' = Clamp(percent_accept + d)
          /\ percent_accept' # percent_accept
    /\ UNCHANGED << pc, cfg, num_inputs, nopts, exit_code >>
    /\ UNCHANGED pipeline_vars

-----------------------------------------------------------------------------
(* af_packet_bind_and_dispatch: live capture *)

\* ring buffers bound, one producer thread spawned per configured thread
AF_Bind ==
    /\ pc = "af_bind"
    /\ prod' = [i \in Threads |->
                  IF i \in ActiveThreads THEN [prod[i] EXCEPT !.state = "running"]
                  ELSE prod[i]]
    /\ pc' = "af_start"
    /\ UNCHANGED << cfg, num_inputs, nopts, exit_code, sig_stop_output, t_output_p,
                    n_broadcast, oc, queues, qcap, queues_live, tc, interrupted,
                    files, io_failed, dropped, enq,
                    fseq, percent_accept, after_fail >>

\* the start signal: predicate set and condition broadcast while holding the
\* condition's mutex, which the coordinator holds from its test of the
\* predicate until it blocks in pthread_cond_wait
AF_Start ==
    /\ pc = "af_start"
    /\ oc.wpc # "wait"
    /\ t_output_p' = 1
    /\ n_broadcast' = n_broadcast + 1
    /\ oc' = pthread_cond_broadcast(oc)
    /\ pc' = "af_join"
    /\ UNCHANGED << cfg, num_inputs, nopts, exit_code, sig_stop_output,
                    queues, qcap, queues_live, prod, tc, interrupted,
                    files, io_failed, dropped, enq,
                    fseq, percent_accept, after_fail >>

\* the external interrupt, delivered while the capture threads run
Interrupt ==
    /\ pc = "af_join"
    /\ ~interrupted
    /\ interrupted' = TRUE
    /\ UNCHANGED << pc, cfg, num_inputs, nopts, exit_code, sig_stop_output, t_output_p,
                    n_broadcast, oc, queues, qcap, queues_live, prod, tc,
                    files, io_failed, dropped, enq,
                    fseq, percent_accept, after_fail >>

\* every capture thread is joined, then the call returns to main
AF_Join ==
    /\ pc = "af_join"
    /\ \A i \in ActiveThreads : prod[i].state = "finished"
    /\ prod' = [i \in Threads |->
                  IF i \in ActiveThreads THEN [prod[i] EXCEPT !.state = "joined"]
                  ELSE prod[i]]
    /\ pc' = "finalize"
    /\ UNCHANGED << cfg, num_inputs, nopts, exit_code, sig_stop_output, t_output_p,
                    n_broadcast, oc, queues, qcap, queues_live, tc, interrupted,
                    files, io_failed, dropped, enq,
                    fseq, percent_accept, after_fail >>

-----------------------------------------------------------------------------
(* Output Coordinator: the output thread *)

\* WriteRecord rotating one record late: only when the count exceeds the limit
WriteRecord_LateRotate(fs, r) ==
    LET n       == Len(fs)
        written == [fs EXCEPT ![n] = Append(fs[n], r)]
    IN  IF cfg.rotate > 0 /\ Len(written[n]) > cfg.rotate
        THEN Append(written, << >>)
        ELSE written

\* a record written to thread i's OutputFile, which is rotated when the
\* record count reaches the limit cfg.rotate (0: no limit)
WriteRecord(fs, r) ==
    LET n       == Len(fs)
        written == [fs EXCEPT ![n] = Append(fs[n], r)]
    IN  IF cfg.rotate > 0 /\ Len(written[n]) >= cfg.rotate
        THEN Append(written, << >>)
        ELSE written

\* oc_start: pthread_cond_wait loop on the start predicate, test of the predicate
OC_CheckStart ==
    /\ Alive
    /\ oc.state = "WaitingForStart"
    /\ oc.wpc = "check"
    /\ oc' = IF t_output_p = 1
             THEN [oc EXCEPT !.state = "Draining", !.wpc = "none"]
             ELSE [oc EXCEPT !.wpc = "wait"]
    /\ UNCHANGED << pc, cfg, num_inputs, nopts, exit_code, sig_stop_output, t_output_p,
                    n_broadcast, queues, qcap, queues_live, prod, tc, interrupted,
                    files, io_failed, dropped, enq,
                    fseq, percent_accept, after_fail >>

\* the predicate was not set: the thread blocks in pthread_cond_wait
OC_CondWait ==
    /\ Alive
    /\ oc.state = "WaitingForStart"
    /\ oc.wpc = "wait"
    /\ oc' = [oc EXCEPT !.wpc = "blocked"]
    /\ UNCHANGED << pc, cfg, num_inputs, nopts, exit_code, sig_stop_output, t_output_p,
                    n_broadcast, queues, qcap, queues_live, prod, tc, interrupted,
                    files, io_failed, dropped, enq,
                    fseq, percent_accept, after_fail >>

\* pthread_cond_wait may return although no broadcast was sent
OC_SpuriousWakeup ==
    /\ Alive
    /\ oc.state = "WaitingForStart"
    /\ oc.wpc = "blocked"
    /\ oc' = [oc EXCEPT !.wpc = "check"]
    /\ UNCHANGED << pc, cfg, num_inputs, nopts, exit_code, sig_stop_output, t_output_p,
                    n_broadcast, queues, qcap, queues_live, prod, tc, interrupted,
                    files, io_failed, dropped, enq,
                    fseq, percent_accept, after_fail >>

\* OC_Poll with a failure on one file making every file unusable
OC_Poll_FailAll ==
    /\ Alive
    /\ oc.state = "Draining"
    /\ oc.idx < NumQueues
    /\ LET i == oc.idx
           r == try_pop_record(queues[i])
       IN  /\ queues' = [queues EXCEPT ![i] = try_pop(queues[i])]
           /\ oc' = [oc EXCEPT !.idx = oc.idx + 1, !.hit = oc.hit \/ (r # NoRecord)]
           /\ \/ /\ r = NoRecord
                 /\ UNCHANGED << files, fseq, io_failed, dropped, after_fail >>
              \/ /\ r # NoRecord
                 /\ ~io_failed[i]
                 /\ LET w == WriteRecord(files[i], r)
                    IN  \/ /\ files' = [files EXCEPT ![i] = w]
                           /\ fseq' = [fseq EXCEPT ![i] =
                                         IF Len(w) > Len(files[i])
                                         THEN Append(fseq[i], NextSeq(fseq[i]))
                                         ELSE fseq[i]]
                           /\ UNCHANGED io_failed
                        \/ /\ Len(w) > Len(files[i])   \* the rotation fails
                           /\ files' = [files EXCEPT ![i] = SubSeq(w, 1, Len(files[i]))]
                           /\ io_failed' = [k \in Threads |-> TRUE]
                           /\ UNCHANGED fseq
                 /\ after_fail' = IF \E k \in ActiveThreads \ {i} : io_failed[k]
                                  THEN [after_fail EXCEPT ![i] = after_fail[i] + 1]
                                  ELSE after_fail
                 /\ UNCHANGED dropped
              \/ /\ r # NoRecord
                 /\ io_failed' = [k \in Threads |-> TRUE]
                 /\ dropped' = [dropped EXCEPT ![i] = dropped[i] + 1]
                 /\ UNCHANGED << files, fseq, after_fail >>
    /\ UNCHANGED << pc, cfg, num_inputs, nopts, exit_code, sig_stop_output, t_output_p,
                    n_broadcast, qcap, queues_live, prod, tc, interrupted, enq,
                    percent_accept >>

\* one queue polled in the round-robin: a record found is written to the
\* file of its thread, or dropped when that file is unusable or the write
\* fails; a rotation that fails after the write leaves the file unusable
OC_Poll ==
    /\ Alive
    /\ oc.state = "Draining"
    /\ oc.idx < NumQueues
    /\ LET i == oc.idx
           r == try_pop_record(queues[i])
       IN  /\ queues' = [queues EXCEPT ![i] = try_pop(queues[i])]
           /\ oc' = [oc EXCEPT !.idx = oc.idx + 1, !.hit = oc.hit \/ (r # NoRecord)]
           /\ \/ /\ r = NoRecord
                 /\ UNCHANGED << files, fseq, io_failed, dropped, after_fail >>
              \/ /\ r # NoRecord
                 /\ ~io_failed[i]
                 /\ LET w == WriteRecord(files[i], r)
                    IN  \/ /\ files' = [files EXCEPT ![i] = w]
                           /\ fseq' = [fseq EXCEPT ![i] =
                                         IF Len(w) > Len(files[i])
                                         THEN Append(fseq[i], NextSeq(fseq[i]))
                                         ELSE fseq[i]]
                           /\ UNCHANGED io_failed
                        \/ /\ Len(w) > Len(files[i])   \* the rotation fails
                           /\ files' = [files EXCEPT ![i] = SubSeq(w, 1, Len(files[i]))]
                           /\ io_failed' = [io_failed EXCEPT ![i] = TRUE]
                           /\ UNCHANGED fseq
                 /\ after_fail' = IF \E k \in ActiveThreads \ {i} : io_failed[k]
                                  THEN [after_fail EXCEPT ![i] = after_fail[i] + 1]
                                  ELSE after_fail
                 /\ UNCHANGED dropped
              \/ /\ r # NoRecord
                 /\ io_failed' = [io_failed EXCEPT ![i] = TRUE]
                 /\ dropped' = [dropped EXCEPT ![i] = dropped[i] + 1]
                 /\ UNCHANGED << files, fseq, after_fail >>
    /\ UNCHANGED << pc, cfg, num_inputs, nopts, exit_code, sig_stop_output, t_output_p,
                    n_broadcast, qcap, queues_live, prod, tc, interrupted, enq,
                    percent_accept >>

\* end of a round over all queues: leave the loop when the stop flag had been
\* seen before this round and the round found every queue empty; otherwise
\* read the stop flag and start the next round
OC_RoundEnd ==
    /\ Alive
    /\ oc.state = "Draining"
    /\ oc.idx = NumQueues
    /\ oc' = IF oc.stop_seen /\ ~oc.hit
             THEN [oc EXCEPT !.state = "ShuttingDown"]
             ELSE [oc EXCEPT !.idx = 0, !.hit = FALSE,
                             !.stop_seen = (sig_stop_output = 1)]
    /\ UNCHANGED << pc, cfg, num_inputs, nopts, exit_code, sig_stop_output, t_output_p,
                    n_broadcast, queues, qcap, queues_live, prod, tc, interrupted,
                    files, io_failed, dropped, enq,
                    fseq, percent_accept, after_fail >>

\* files flushed and closed, statistics reported, thread function returns
OC_Terminate ==
    /\ Alive
    /\ oc.state = "ShuttingDown"
    /\ oc' = [oc EXCEPT !.state = "Terminated"]
    /\ UNCHANGED << pc, cfg, num_inputs, nopts, exit_code, sig_stop_output, t_output_p,
                    n_broadcast, queues, qcap, queues_live, prod, tc, interrupted,
                    files, io_failed, dropped, enq,
                    fseq, percent_accept, after_fail >>

-----------------------------------------------------------------------------
(* The program *)

Init ==
    /\ pc = "getopt"
    /\ cfg = mercury_config_init
    /\ num_inputs = 0
    /\ nopts = 0
    /\ exit_code = NotExited
    /\ sig_stop_output = 0
    /\ t_output_p = 0
    /\ n_broadcast = 0
    /\ oc = [ state |-> "Uninitialized", wpc |-> "none", idx |-> 0,
              hit |-> FALSE, stop_seen |-> FALSE ]
    /\ queues = << >>
    /\ qcap = 0
    /\ queues_live = "none"
    /\ prod = [i \in Threads |-> [state |-> "none", next |-> 0, qdrops |-> 0,
                                  adrops |-> 0]]
    /\ tc = [status |-> "uninit", pkt_processor |-> "null", rf_open |-> FALSE]
    /\ interrupted = FALSE
    /\ files = [i \in Threads |-> << >>]
    /\ io_failed = [i \in Threads |-> FALSE]
    /\ dropped = [i \in Threads |-> 0]
    /\ enq = [i \in Threads |-> << >>]
    /\ fseq = [i \in Threads |-> << >>]
    /\ percent_accept = AcceptAll
    /\ after_fail = [i \in Threads |-> 0]

MainStep ==
    \/ MainGetopt
    \/ MainGetoptUsage
    \/ MainGetoptEnd
    \/ MainValidate
    \/ MainSetup
    \/ MainOutputThreadInit
    \/ MainSkipDispatch
    \/ OD_Init
    \/ OD_SetStart
    \/ OD_Broadcast
    \/ OD_Create
    \/ OD_Join
    \/ OD_Close
    \/ AF_Bind
    \/ AF_Start
    \/ AF_Join
    \/ MainStop
    \/ MainJoinOutput
    \/ MainDestroy
    \/ MainReturn

\* the steps of producer thread i; the replay thread is thread 0
Producer(i) ==
    \/ (i = 0 /\ PF_Packet)
    \/ (i = 0 /\ PF_Return)
    \/ LC_Packet(i)
    \/ LC_Return(i)

ProducerStep == \E i \in Threads : Producer(i)

CoordinatorStep ==
    \/ OC_CheckStart
    \/ OC_CondWait
    \/ OC_Poll
    \/ OC_RoundEnd
    \/ OC_Terminate

Next ==
    \/ MainStep
    \/ ProducerStep
    \/ CoordinatorStep
    \/ OC_SpuriousWakeup
    \/ Interrupt
    \/ AC_Adjust

Spec == Init /\ [][Next]_vars

\* every thread that can take a step eventually takes one; the external
\* interrupt and spurious wakeups are not under the program's control and
\* have no fairness
FairSpec ==
    /\ Spec
    /\ WF_vars(MainStep)
    /\ \A i \in Threads : WF_vars(Producer(i))
    /\ WF_vars(CoordinatorStep)

-----------------------------------------------------------------------------
(* Derived notions used by the properties *)

\* the records of a sequence of files, in file order
RECURSIVE Flatten(_)
Flatten(fs) == IF fs = << >> THEN << >> ELSE Head(fs) \o Flatten(Tail(fs))

\* the records written for thread i, in the order they were written
Written(i) == Flatten(files[i])

\* a is b with some elements left out
RECURSIVE IsSubseq(_, _)
IsSubseq(a, b) ==
    IF a = << >> THEN TRUE
    ELSE IF b = << >> THEN FALSE
    ELSE IF Head(a) = Head(b) THEN IsSubseq(Tail(a), Tail(b))
    ELSE IsSubseq(a, Tail(b))

\* no producer thread is running: each was never created or has been joined
NoProducerRunning == \A i \in Threads : prod[i].state \in {"none", "joined"}

\* at least one producer thread was created, and all of them have been joined
ProducersJoined ==
    /\ NoProducerRunning
    /\ \E i \in Threads : prod[i].state = "joined"

\* the output thread is not running: never created, or its function returned
CoordinatorNotRunning == oc.state \in {"Uninitialized", "Terminated"}

\* the coordinator has begun polling queues
CoordinatorPolling == oc.state \in {"Draining", "ShuttingDown", "Terminated"}

\* producer setup is done: capture rings bound, or reader context initialised
SetupComplete ==
    IF cfg.capture_interface
    THEN \A i \in ActiveThreads : prod[i].state # "none"
    ELSE tc.status = "ok"

ExactlyOneInput(c) ==
    (c.capture_interface /\ ~c.read_filename) \/ (~c.capture_interface /\ c.read_filename)

\* the configurations the design calls invalid or incompatible
InvalidConfiguration(c) ==
    \/ (~c.capture_interface /\ ~c.read_filename)
    \/ (c.capture_interface /\ c.read_filename)
    \/ (c.fingerprint_filename /\ c.write_filename)
    \/ (c.num_threads # 1 /\ ~c.fingerprint_filename /\ ~c.write_filename)
    \/ c.loop_count < 1
    \/ (c.adaptive > 0 /\ ~(c.capture_interface /\ c.write_filename))

NothingStarted ==
    /\ oc.state = "Uninitialized"
    /\ \A i \in Threads : prod[i].state = "none"
    /\ \A i \in Threads : files[i] = << >>

-----------------------------------------------------------------------------
(* C1 *)

\* C1 (termination part): once the stop flag is set and the producer threads
\* have been joined, the Output Coordinator eventually reaches Terminated.
C1_DrainTerminates ==
    (sig_stop_output = 1 /\ ProducersJoined) ~> (oc.state = "Terminated")

(* C2 *)

\* C2: whenever the stop flag is set every producer thread has already been
\* joined (or was never created), and no step taken while the flag is set
\* enqueues a record.
C2_NoEnqueueAfterStop ==
    /\ [](sig_stop_output = 1 => NoProducerRunning)
    /\ [][sig_stop_output = 1 => enq' = enq]_vars

C2_Witness ==
    /\ sig_stop_output = 1
    /\ prod[0].state = "joined"
    /\ Len(enq[0]) > 0

(* C3 *)

\* C3 as stated: the stop flag is set first and the producers are joined
\* afterwards, so a joined producer implies a set stop flag.
C3_StopFlagBeforeProducerJoin ==
    \A i \in Threads : prod[i].state = "joined" => sig_stop_output = 1

\* C3 as amended: the producers are joined first; the stop flag is set only
\* when no producer is running; the coordinator ends its drain only with the
\* flag set; and main's join of a coordinator it created returns only when
\* the coordinator has terminated.
C3_ShutdownOrder ==
    [][ /\ (sig_stop_output = 0 /\ sig_stop_output' = 1) => NoProducerRunning
        /\ (oc'.state \in {"ShuttingDown", "Terminated"}) => sig_stop_output = 1
        /\ (pc = "join_out" /\ pc' = "destroy" /\ oc.state # "Uninitialized")
              => oc.state = "Terminated" ]_vars

C3_Witness ==
    /\ pc = "destroy"
    /\ sig_stop_output = 1
    /\ prod[0].state = "joined"
    /\ oc.state = "Terminated"

(* C4 *)

QueueWellFormed(q) ==
    /\ q.count \in 0 .. qcap
    /\ q.head \in 0 .. (qcap - 1)
    /\ q.tail \in 0 .. (qcap - 1)
    /\ q.tail = (q.head + q.count) % qcap
    /\ Cardinality({k \in DOMAIN q.buf : q.buf[k] # NoRecord}) = q.count

\* C4: a queue holds between 0 and capacity records; a producer step on a
\* full queue leaves the queue as it was and enqueues nothing; a coordinator
\* poll of an empty queue leaves the queue as it was and writes nothing.
C4_QueueBounded ==
    /\ [](qcap >= 0 /\ \A i \in DOMAIN queues : QueueWellFormed(queues[i]))
    /\ [][ /\ \A i \in DOMAIN queues :
                (prod'[i].next = prod[i].next + 1 /\ QueueFull(queues[i]))
                   => (queues'[i] = queues[i] /\ enq'[i] = enq[i])
           /\ \A i \in DOMAIN queues :
                (oc.state = "Draining" /\ oc.idx = i /\ oc'.idx = i + 1
                   /\ QueueEmpty(queues[i]))
                   => (queues'[i] = queues[i] /\ files' = files /\ dropped' = dropped) ]_vars

C4_Witness ==
    /\ prod[0].qdrops > 0
    /\ oc.state = "Draining"
    /\ oc.idx = NumQueues
    /\ ~oc.hit
    /\ Len(Written(0)) > 0

(* C5 *)

\* C5: for every thread, the records written to its files (across
\* rotations) followed by the records still in its queue are a subsequence
\* of the records it enqueued, in enqueue order.
C5_PerThreadOrder ==
    \A i \in Threads :
        IsSubseq(Written(i) \o (IF i \in DOMAIN queues THEN QueueContents(queues[i]) ELSE << >>),
                 enq[i])

C5_Witness ==
    \E i \in Threads :
        /\ Len(Written(i)) >= 2
        /\ Len(files[i]) >= 2
        /\ Len(enq[i]) > Len(Written(i))

(* C6 *)

\* C6: the start broadcast is sent at most once, and only after producer
\* setup has succeeded; once a replay producer thread exists it has been sent
\* exactly once; the coordinator polls no queue before the start predicate
\* is set.
C6_StartSignal ==
    /\ n_broadcast <= 1
    /\ (n_broadcast >= 1 \/ t_output_p = 1) => SetupComplete
    /\ n_broadcast >= 1 => t_output_p = 1
    /\ (pc \in {"od_create", "od_join", "od_close", "af_join"}) => n_broadcast = 1
    /\ CoordinatorPolling => t_output_p = 1

C6_Witness ==
    /\ ~cfg.capture_interface
    /\ n_broadcast = 1
    /\ oc.state = "Draining"
    /\ oc.idx > 0

(* C7 *)

\* C7: once the configuration checks are over, an invalid or incompatible
\* configuration has made the process exit non-zero with no thread created
\* and no output file created.
C7_InvalidConfigRejected ==
    (pc \notin {"getopt", "validate"} /\ InvalidConfiguration(cfg))
        => (pc = "exited" /\ exit_code # 0 /\ NothingStarted)

(* C8 *)

\* C8: when the options have been read, the input-selection check passes
\* (num_inputs is 1) exactly when exactly one of capture interface and
\* replay file is supplied.
C8_InputCheckIffExactlyOne ==
    pc = "validate" => ((num_inputs = 1) <=> ExactlyOneInput(cfg))

(* C9 *)

\* C9: after the reader context could not be initialised (packet processor
\* or replay file), the process ends with a non-zero exit code.
C9_StartupFailureExitsNonZero ==
    (tc.status = "err") ~> (pc = "exited" /\ exit_code # 0)

(* C10 *)

\* C10: the process never exits while a thread it created is still running.
C10_NoExitWithRunningThread ==
    pc = "exited" => (CoordinatorNotRunning /\ NoProducerRunning)

(* C11 *)

\* the packet processor or the replay file of the reader context is gone
ThreadContextDestroyed == tc.pkt_processor = "deleted"

\* the queues are gone
QueuesDestroyed == queues_live = "destroyed"

\* C11: no queue and no component of a thread context (its packet processor
\* included) is destroyed while a producer or the output thread has not
\* terminated: whatever is destroyed, every producer has been joined and the
\* output thread is not running any more.
C11_DestroyAfterAllThreads ==
    (ThreadContextDestroyed \/ QueuesDestroyed)
        => (NoProducerRunning /\ CoordinatorNotRunning)

(* C12 *)

\* thread i takes one packet from its source in this step
PacketStep(i) == prod'[i].next = prod[i].next + 1

\* the packet of this step is rejected by admission control
PacketRejected(i) == prod'[i].adrops = prod[i].adrops + 1

\* the packet of this step is handed to the packet processor
PacketHandedOn(i) == prod'[i].adrops = prod[i].adrops

\* C12: percent_accept is set to 30 when adaptive admission is configured
\* and stays within [0, 100] whatever adjustments follow; a packet taken
\* while it is 0 is never handed to the packet processor, and a packet
\* taken while it is 100 always is.
C12_AdmissionBounds ==
    /\ [](percent_accept \in 0 .. 100)
    /\ [][(pc = "validate" /\ pc' = "setup" /\ cfg.adaptive > 0)
              => percent_accept' = 30]_vars
    /\ [][\A i \in Threads :
              PacketStep(i) =>
                  /\ percent_accept = 0 => PacketRejected(i)
                  /\ percent_accept = 100 => PacketHandedOn(i)]_vars

\* a capture thread has had its packet rejected, and the adjustments have
\* brought percent_accept from 30 down to 0
C12_Witness ==
    /\ cfg.adaptive > 0
    /\ percent_accept = 0
    /\ \E i \in ActiveThreads : prod[i].state = "running" /\ prod[i].adrops > 0

(* C13 *)

\* output_thread_init has built the queues and opened the first files
OutputFilesOpened == oc.state # "Uninitialized"

\* R: the records the output thread has written for thread i, counted from
\* the queue side: enqueued, no longer queued, and not dropped
RecordsWritten(i) == Len(enq[i]) - queues[i].count - dropped[i]

\* C13: with rotation limit L >= 1 the files of a thread carry the sequence
\* numbers 0, 1, 2, ... in the order they were opened, without a gap and
\* without a repeat; every file but the last holds exactly L records and the
\* last holds the rest of the R records written. Without a limit there is
\* one file, number 0, holding all R records.
C13_RotationSequence ==
    OutputFilesOpened =>
        \A i \in ActiveThreads :
            LET fs == files[i]
                n  == Len(fs)
                L  == cfg.rotate
                R  == RecordsWritten(i)
            IN  /\ n >= 1
                /\ Len(fseq[i]) = n
                /\ \A k \in 1 .. n : fseq[i][k] = k - 1
                /\ L >= 1 =>
                      /\ \A k \in 1 .. (n - 1) : Len(fs[k]) = L
                      /\ Len(fs[n]) <= L
                      /\ Len(fs[n]) = R - (n - 1) * L
                /\ L = 0 => (n = 1 /\ Len(fs[1]) = R)

\* limit 2 and three records written: file 0 holds two, file 1 holds one
C13_Witness ==
    /\ OutputFilesOpened
    /\ cfg.rotate = 2
    /\ RecordsWritten(0) = 3
    /\ fseq[0] = << 0, 1 >>
    /\ Len(files[0][1]) = 2
    /\ Len(files[0][2]) = 1

(* C14 *)

\* a replay of the file with one thread and no rotation limit
ReplayScenario ==
    /\ cfg.read_filename
    /\ ~cfg.capture_interface
    /\ cfg.num_threads = 1
    /\ cfg.rotate = 0

\* the packet of the capture file that record r was made from
PacketOf(r) == ((r - 1) % FileLen) + 1

\* every packet of every loop yielded a record that was accepted by the
\* queue, and no write failed
ReplayUndisturbed == Len(enq[0]) = ReplayPackets /\ ~io_failed[0]

\* the one output file holds n * k records, in capture order repeated k times
ReplayWrittenInOrder ==
    /\ Len(files[0]) = 1
    /\ Len(files[0][1]) = ReplayPackets
    /\ \A j \in 1 .. ReplayPackets :
          /\ files[0][1][j] = j
          /\ PacketOf(files[0][1][j]) = ((j - 1) % FileLen) + 1

\* C14: a replay of n packets with loop_count k, one thread and no rotation,
\* once its reader thread runs, comes to the end of input and shuts down,
\* and when every packet yielded a record that the queue took and no write
\* failed, the one output file then holds exactly n * k records in capture
\* order repeated k times.
C14_ReplayRepeat ==
    (ReplayScenario /\ prod[0].state = "running")
        ~> (pc = "exited" /\ (ReplayUndisturbed => ReplayWrittenInOrder))

(* C15 *)

\* every queue of the run is empty
AllQueuesEmpty == \A i \in ActiveThreads : QueueEmpty(queues[i])

\* C15: the output thread goes from Draining to ShuttingDown only at the end
\* of a full round that found every queue empty and that began after it had
\* read the stop flag as set; so whenever the output thread is in
\* ShuttingDown or Terminated, the stop flag is set and every queue is empty.
C15_DrainUntilEmpty ==
    /\ [][(oc.state = "Draining" /\ oc'.state # "Draining")
              => /\ oc'.state = "ShuttingDown"
                 /\ oc.stop_seen
                 /\ oc.idx = NumQueues
                 /\ ~oc.hit
                 /\ sig_stop_output = 1
                 /\ AllQueuesEmpty]_vars
    /\ [](oc.state \in {"ShuttingDown", "Terminated"}
              => (sig_stop_output = 1 /\ AllQueuesEmpty))

\* the output thread has terminated after records went through a queue that
\* had been full, and all of them have left it
C15_Witness ==
    /\ oc.state = "Terminated"
    /\ sig_stop_output = 1
    /\ \E i \in ActiveThreads :
          /\ Len(enq[i]) >= 2
          /\ prod[i].qdrops > 0
          /\ QueueEmpty(queues[i])

(* C16 *)

\* position of a state of the output thread in its life cycle
StateRank(st) ==
    CASE st = "Uninitialized"   -> 0
      [] st = "WaitingForStart" -> 1
      [] st = "Draining"        -> 2
      [] st = "ShuttingDown"    -> 3
      [] st = "Terminated"      -> 4

\* some producer thread has been created
ProducerExists == \E i \in Threads : prod[i].state # "none"

\* C16: the output thread is created, and enters WaitingForStart, while no
\* producer thread exists yet; a producer thread is only ever created with
\* the output thread in place; and the output thread's state only moves one
\* step forward along Uninitialized, WaitingForStart, Draining, ShuttingDown,
\* Terminated, never skipping a state and never going back.
C16_CoordinatorFirstAndForward ==
    /\ oc.state = "Uninitialized" /\ ~ProducerExists
    /\ [][(oc.state = "Uninitialized" /\ oc'.state # "Uninitialized")
              => (oc'.state = "WaitingForStart" /\ ~ProducerExists /\ ~ProducerExists')]_vars
    /\ [][(~ProducerExists /\ ProducerExists') => oc.state # "Uninitialized"]_vars
    /\ [](ProducerExists => oc.state # "Uninitialized")
    /\ [][StateRank(oc'.state) \in {StateRank(oc.state), StateRank(oc.state) + 1}]_vars

\* the output thread has gone through all five states in a run with a producer
C16_Witness ==
    /\ oc.state = "Terminated"
    /\ \E i \in Threads : prod[i].state = "joined" /\ prod[i].next > 0

(* C17 *)

\* the replay producer runs
ReplayProducerRunning == ~cfg.capture_interface /\ prod[0].state = "running"

\* C17: the output path never holds a producer back. While the replay
\* producer runs it can always take its next step, whatever its queue holds;
\* a packet processed while the queue is full leaves the queue as it is (the
\* record is dropped, not waited for); and with a finite loop_count the
\* producer reaches the end of its input and main's join of it returns, even
\* when the output thread never pops a record.
C17_NoBackPressure ==
    /\ [](ReplayProducerRunning => ENABLED Producer(0))
    /\ [][(ReplayProducerRunning /\ PacketStep(0) /\ QueueFull(queues[0]))
              => (queues' = queues /\ enq' = enq)]_vars
    /\ ReplayProducerRunning ~> (prod[0].state = "joined")

\* the replay producer has been joined although the output thread never left
\* WaitingForStart: the queue is still full and records were dropped
C17_Witness ==
    /\ ~cfg.capture_interface
    /\ prod[0].state = "joined"
    /\ prod[0].next = ReplayPackets
    /\ oc.state = "WaitingForStart"
    /\ QueueFull(queues[0])
    /\ prod[0].qdrops > 0

(* C18 *)

\* the output thread polls queue i in this step and finds a record
PollsRecord(i) ==
    /\ oc.state = "Draining"
    /\ oc.idx = i
    /\ oc'.idx = i + 1
    /\ ~QueueEmpty(queues[i])

\* C18: a write or rotation failure on one thread's OutputFile stays with
\* that thread. Once thread i's file is unusable it stays unusable, nothing
\* more is written to it, and every further record of thread i is taken from
\* the queue and counted as dropped; a record of another thread j whose file
\* is usable is still taken from its queue and written to j's file (unless
\* that write fails itself), and j's file only becomes unusable by a failure
\* on a record of j; the output thread is not stopped by the failure: after
\* the stop flag is set it still terminates.
C18_IoErrorIsolation ==
    /\ [][\A i \in ActiveThreads :
              io_failed[i] =>
                  /\ io_failed'[i]
                  /\ files'[i] = files[i]
                  /\ PollsRecord(i) =>
                        /\ queues'[i] = try_pop(queues[i])
                        /\ dropped'[i] = dropped[i] + 1]_vars
    /\ [][\A j \in ActiveThreads :
              (PollsRecord(j) /\ ~io_failed[j])
                  => /\ queues'[j] = try_pop(queues[j])
                     /\ \/ Written(j)' = Append(Written(j), try_pop_record(queues[j]))
                        \/ io_failed'[j] /\ dropped'[j] = dropped[j] + 1]_vars
    /\ [][\A j \in ActiveThreads :
              (io_failed'[j] /\ ~io_failed[j]) => PollsRecord(j)]_vars
    /\ [](((\E i \in ActiveThreads : io_failed[i]) /\ oc.state = "Draining")
              => ENABLED CoordinatorStep)
    /\ ((\E i \in ActiveThreads : io_failed[i]) /\ sig_stop_output = 1)
           ~> (oc.state = "Terminated")

\* thread i's file has failed and its record was counted as dropped, a
\* record of thread j was written after that failure, and the output thread
\* has terminated
C18_Witness ==
    /\ oc.state = "Terminated"
    /\ \E i, j \in ActiveThreads :
          /\ i # j
          /\ io_failed[i]
          /\ ~io_failed[j]
          /\ after_fail[j] > 0
          /\ dropped[i] > 0

(* C19 *)

\* main is past its join of the output thread
OutputThreadJoined == pc \in {"destroy", "return", "exited"}

\* C19: every run of main that has created the output thread terminates:
\* once the stop flag is set, the output thread reaches Terminated and main's
\* join of it returns, whether the start signal was issued or not.
C19_MainTerminates ==
    (oc.state # "Uninitialized" /\ sig_stop_output = 1)
        ~> (oc.state = "Terminated" /\ OutputThreadJoined)

(* C20 *)

\* C20: the start signal cannot be missed: once the predicate is written and
\* the condition broadcast, the output thread leaves WaitingForStart for
\* Draining, however its test of the predicate and its wait interleave with
\* the write and the broadcast.
C20_StartSignalNotMissed ==
    (t_output_p = 1 /\ n_broadcast > 0 /\ Alive)
        ~> (CoordinatorPolling \/ ~Alive)

(* C21 *)

\* main is at or past the statements that stop and join the output thread
\* and destroy the thread queues (lines 545-547), and has not crashed in them
AtShutdownSteps == pc \in {"join_out", "destroy", "return"}

\* C21: whenever main is at the join of the output thread or at the
\* destruction of the thread queues, the output thread was created earlier
\* in the run and the queues were built: no configuration that passes the
\* checks gets to the shutdown steps without the capture branch or the
\* replay branch having run output_thread_init.
C21_JoinOnlyCreatedThread ==
    AtShutdownSteps => (oc.state # "Uninitialized" /\ queues_live # "none")

====
